---- MODULE Spec2Model ----
(***************************************************************************)
(* Model of the stock-fantasy LLM service: the in-memory weekly cache      *)
(* (app.py), the generator endpoint /generate-weekly-stocks, the merger    *)
(* endpoint /daily-stock-data and the LLM service (llm_service.py).        *)
(*                                                                         *)
(* Both endpoints are "async def" handlers without a single await: the     *)
(* event loop runs each handler body to completion before it starts the    *)
(* next one, so one handler invocation is one atomic action.               *)
(*                                                                         *)
(* Python dicts are functions from key strings to values; a missing key    *)
(* is a key outside DOMAIN.  Time is counted in whole days.  Close prices  *)
(* are counted in 1/1000 of a currency unit, rounded prices in 1/100,      *)
(* rounded percentages in 1/100 of a percent.                              *)
(***************************************************************************)
EXTENDS Integers, Sequences, FiniteSets, TLC

VARIABLES weekly_stock_data, clock, req, resp

vars == <<weekly_stock_data, clock, req, resp>>

\* ------------------------------------------------------------------ bounds
\* Longest "stocks" list a sampled LLM answer carries.
MaxStocks == 2
\* Latest clock reading (days since process start).
MaxNow == 8
\* Longest raw LLM text, in tokens, of the extraction runs.
MaxText == 5
\* Largest close, in 1/1000 of a currency unit, of the rounding runs.
MaxClose == 33

\* --------------------------------------------------------------- constants
\* timedelta(days=7)
StaleDays == 7
\* stock.get("buy_sell_score", 50)
DefaultScore == 50

None == "None"

\* "last_updated": None, among clock readings.
NoTime == -1

\* Clock readings of the content runs: process start and a day past the
\* staleness limit.
Times == {0, MaxNow}

\* Clock readings of the staleness runs: every day up to MaxNow.
Days == 0 .. MaxNow

\* ----------------------------------------------------------- dict helpers
\* dict.get(key, default)
Get(d, k, default) == IF k \in DOMAIN d THEN d[k] ELSE default

\* d[key] = value
SetKey(d, k, v) == [x \in (DOMAIN d) \cup {k} |-> IF x = k THEN v ELSE d[x]]

\* {}
EmptyDict == [k \in {} |-> None]

\* Python truthiness of a ticker value: None and "" are falsy.
Truthy(v) == v # None /\ v # ""

\* ------------------------------------------------------------- JSON values
\* A parsed JSON value carries its Python type, as isinstance would see it.
JDict(d) == [type |-> "dict", val |-> d]
JList(l) == [type |-> "list", val |-> l]
JStr(x) == [type |-> "str", val |-> x]
JNull == [type |-> "null", val |-> None]

\* --------------------------------------------------------- sampled inputs
\* The provider query parameter: the default, a mixed-case spelling and an
\* unsupported one.
Providers == {"gemini", "OpenAI", "claude"}

EnvKeys == {"OPENAI_API_KEY", "GEMINI_API_KEY"}

\* What os.getenv returns: every key unset, or every key set.
Envs == {[k \in EnvKeys |-> v] : v \in {None, "sk"}}

\* Stock entries an LLM answer can carry: one with the fields the prompt
\* lists, one with the fields of the prompt's example format, an entry
\* without a ticker, and an entry with an empty ticker.
StockEntries ==
    {JDict([ticker |-> "AAPL", buy_sell_score |-> 85, reason |-> "r"]),
     JDict([ticker |-> "ZZZ", preference_score |-> 85, reason |-> "r"]),
     JDict([score |-> 10]),
     JDict([ticker |-> "", score |-> 10])}

\* Lists with an element that is no JSON object, alone and after a stock.
MalformedLists ==
    {<<JStr("AAPL")>>,
     <<JDict([ticker |-> "AAPL", buy_sell_score |-> 85, reason |-> "r"]), JStr("AAPL")>>}

StockLists ==
    UNION {[1 .. n -> StockEntries] : n \in 0 .. MaxStocks} \cup MalformedLists

\* The JSON objects an LLM answer can hold between its braces.
Bodies ==
    {[stocks |-> JList(l)] : l \in StockLists}
    \cup {[stocks |-> JNull], [items |-> JList(<<>>)]}

\* Raw text is a sequence of tokens: noise, a markdown fence, a brace, or
\* the text of a JSON object body.
Tok(t) == [t |-> t, json |-> [none |-> None]]
BodyTok(b) == [t |-> "body", json |-> b]

\* Raw answers of a backend: a fenced JSON object, the empty object, text
\* without braces, braces around text that is no JSON.
RawResponses ==
    {<<Tok("fence"), Tok("{"), BodyTok(b), Tok("}"), Tok("fence")>> : b \in Bodies}
    \cup {<<Tok("{"), Tok("}")>>, <<Tok("noise")>>, <<Tok("{"), Tok("noise"), Tok("}")>>}

\* What the vendor SDK call does: raises, or returns text.
BackendOutcomes ==
    {[kind |-> "raise", text |-> <<>>]}
    \cup {[kind |-> "text", text |-> r] : r \in RawResponses}

\* yf.Ticker(t).info: raises, has no longName, or has one.
LookupOutcomes == {"raise", "nolong", "long"}

\* ticker_info['longName'] of the sampled tickers.
LongName(t) == IF t = "AAPL" THEN "Apple Inc." ELSE "Zeta Corp."

\* ------------------------------------------------------------- LLMService
\* str.lower() on the sampled provider strings.
Lower(p) == IF p = "OpenAI" THEN "openai" ELSE p

\* LLMService_init without the API key checks.
LLMService_init_NoKeyCheck(provider, env) ==
    LET p == Lower(provider) IN
    IF p \notin {"openai", "gemini"}
    THEN [raised |-> TRUE, msg |-> "Unsupported provider", provider |-> p]
    ELSE [raised |-> FALSE, msg |-> "", provider |-> p]

\* LLMService.__init__: raises ValueError for an unsupported provider or a
\* missing API key, otherwise holds the lower-cased provider.
LLMService_init(provider, env) ==
    LET p == Lower(provider) IN
    IF p \notin {"openai", "gemini"}
    THEN [raised |-> TRUE, msg |-> "Unsupported provider", provider |-> p]
    ELSE IF p = "openai"
    THEN IF ~Truthy(env["OPENAI_API_KEY"])
         THEN [raised |-> TRUE, msg |-> "OPENAI_API_KEY environment variable not set.", provider |-> p]
         ELSE [raised |-> FALSE, msg |-> "", provider |-> p]
    ELSE IF ~Truthy(env["GEMINI_API_KEY"])
         THEN [raised |-> TRUE, msg |-> "GEMINI_API_KEY environment variable not set.", provider |-> p]
         ELSE [raised |-> FALSE, msg |-> "", provider |-> p]

\* call_openai: the SDK's text as it is, an API error re-raised.
call_openai(outcome) ==
    IF outcome.kind = "raise"
    THEN [raised |-> TRUE, msg |-> "OpenAI API error", text |-> <<>>]
    ELSE [raised |-> FALSE, msg |-> "", text |-> outcome.text]

IsNotFence(tok) == tok.t # "fence"

\* call_gemini: the markdown fences are removed from the text.
call_gemini(outcome) ==
    IF outcome.kind = "raise"
    THEN [raised |-> TRUE, msg |-> "Gemini API error", text |-> <<>>]
    ELSE [raised |-> FALSE, msg |-> "", text |-> SelectSeq(outcome.text, IsNotFence)]

\* str.find: 0-based index of the first occurrence, -1 if there is none.
Find(raw, ch) ==
    LET hits == {i \in 1 .. Len(raw) : raw[i].t = ch} IN
    IF hits = {} THEN -1 ELSE (CHOOSE i \in hits : \A j \in hits : i <= j) - 1

\* RFind with str.find for str.rfind: the first occurrence.
RFind_FirstOccurrence(raw, ch) == Find(raw, ch)

\* str.rfind: 0-based index of the last occurrence, -1 if there is none.
RFind(raw, ch) ==
    LET hits == {i \in 1 .. Len(raw) : raw[i].t = ch} IN
    IF hits = {} THEN -1 ELSE (CHOOSE i \in hits : \A j \in hits : i >= j) - 1

\* raw[start:end]
Slice(raw, start, end) == SubSeq(raw, start + 1, end)

\* json.loads of a token string: an object's braces around one body, or {}.
json_loads(toks) ==
    IF Len(toks) = 3 /\ toks[1].t = "{" /\ toks[2].t = "body" /\ toks[3].t = "}"
    THEN [raised |-> FALSE, value |-> toks[2].json]
    ELSE IF Len(toks) = 2 /\ toks[1].t = "{" /\ toks[2].t = "}"
    THEN [raised |-> FALSE, value |-> EmptyDict]
    ELSE [raised |-> TRUE, value |-> [none |-> None]]

\* LLMService.generate_stock_data: call the backend, cut the text from the
\* first "{" to the last "}", parse it.
generate_stock_data(provider, outcome) ==
    LET called == IF provider = "openai" THEN call_openai(outcome) ELSE call_gemini(outcome)
        raw_response == called.text
        start_index == Find(raw_response, "{")
        end_index == RFind(raw_response, "}") + 1
        parsed == json_loads(Slice(raw_response, start_index, end_index))
    IN
    IF called.raised
    THEN [raised |-> TRUE, msg |-> called.msg, value |-> [none |-> None]]
    ELSE IF start_index = -1 \/ end_index = 0 \/ parsed.raised
    THEN [raised |-> TRUE, msg |-> "Failed to decode JSON from LLM response.", value |-> [none |-> None]]
    ELSE [raised |-> FALSE, msg |-> "", value |-> parsed.value]

\* ---------------------------------------------------------------- app.py
\* weekly_stock_data = {"last_updated": None, "data": []}
EmptyCache == [last_updated |-> NoTime, data |-> <<>>]

\* The request log of a handler that has not run yet.
NoReq ==
    [op |-> "none", stage |-> "none", provider |-> "", env |-> [k \in EnvKeys |-> None],
     stocks |-> <<>>, lookup |-> <<>>, fetch |-> <<>>,
     llm_calls |-> 0, lookup_calls |-> 0, fetch_calls |-> 0,
     seen_updated |-> NoTime, seen_data |-> <<>>]

\* An entry with a truthy ticker.
HasTicker(stock) == stock.type = "dict" /\ Truthy(Get(stock.val, "ticker", None))

\* Does the enrichment loop reach entry i and look up its name?  It stops
\* at the first entry that is no dict.
LooksUp(stock_list, i) ==
    /\ HasTicker(stock_list[i])
    /\ \A j \in 1 .. i - 1 : stock_list[j].type = "dict"

\* One outcome of yf.Ticker(t).info per entry the generator looks up.
LookupChoices(stock_list) ==
    {f \in [1 .. Len(stock_list) -> LookupOutcomes \cup {"unused"}] :
        \A i \in 1 .. Len(stock_list) : (f[i] = "unused") <=> ~LooksUp(stock_list, i)}

\* EnrichStep with "if ticker_str is None" for "if not ticker_str": an
\* entry with the empty ticker is kept.
EnrichStep_KeepsEmptyTicker(stock, outcome) ==
    IF stock.type # "dict"
    THEN [do |-> "raise", item |-> [none |-> None], calls |-> 0]
    ELSE LET ticker_str == Get(stock.val, "ticker", None) IN
         IF ticker_str = None
         THEN [do |-> "continue", item |-> [none |-> None], calls |-> 0]
         ELSE [do |-> "append",
               item |-> SetKey(stock.val, "name",
                               IF outcome = "long" THEN LongName(ticker_str)
                               ELSE ticker_str),
               calls |-> IF ticker_str = "" THEN 0 ELSE 1]

\* EnrichStep, had it kept the entries without a ticker.
EnrichStep_KeepsTickerless(stock, outcome) ==
    IF stock.type # "dict"
    THEN [do |-> "raise", item |-> [none |-> None], calls |-> 0]
    ELSE LET ticker_str == Get(stock.val, "ticker", None) IN
         IF ~Truthy(ticker_str)
         THEN [do |-> "append", item |-> SetKey(stock.val, "name", None), calls |-> 0]
         ELSE [do |-> "append",
               item |-> SetKey(stock.val, "name",
                               IF outcome = "long" THEN LongName(ticker_str)
                               ELSE ticker_str),
               calls |-> 1]

\* EnrichStep without the inner try: a failed lookup ends the loop.
EnrichStep_LookupAborts(stock, outcome) ==
    IF stock.type # "dict"
    THEN [do |-> "raise", item |-> [none |-> None], calls |-> 0]
    ELSE LET ticker_str == Get(stock.val, "ticker", None) IN
         IF ~Truthy(ticker_str)
         THEN [do |-> "continue", item |-> [none |-> None], calls |-> 0]
         ELSE IF outcome = "raise"
         THEN [do |-> "raise", item |-> [none |-> None], calls |-> 1]
         ELSE [do |-> "append",
               item |-> SetKey(stock.val, "name",
                               IF outcome = "long" THEN LongName(ticker_str)
                               ELSE ticker_str),
               calls |-> 1]

\* The body of the enrichment loop for one entry.  An entry that is no
\* dict has no .get: AttributeError, outside the inner try.  An entry with no
\* truthy ticker is passed over.  A failed lookup takes the inner except
\* branch: the ticker is the name.
EnrichStep(stock, outcome) ==
    IF stock.type # "dict"
    THEN [do |-> "raise", item |-> [none |-> None], calls |-> 0]
    ELSE LET ticker_str == Get(stock.val, "ticker", None) IN
         IF ~Truthy(ticker_str)
         THEN [do |-> "continue", item |-> [none |-> None], calls |-> 0]
         ELSE IF outcome = "raise"
         THEN [do |-> "append", item |-> SetKey(stock.val, "name", ticker_str), calls |-> 1]
         ELSE [do |-> "append",
               item |-> SetKey(stock.val, "name",
                               IF outcome = "long" THEN LongName(ticker_str)
                               ELSE ticker_str),
               calls |-> 1]

\* for stock in stock_list: from entry i on.
RECURSIVE EnrichLoop(_, _, _, _, _)
EnrichLoop(stock_list, lookup, i, enriched_stock_list, calls) ==
    IF i > Len(stock_list)
    THEN [raised |-> FALSE, list |-> enriched_stock_list, calls |-> calls]
    ELSE LET step == EnrichStep(stock_list[i], lookup[i]) IN
         IF step.do = "raise"
         THEN [raised |-> TRUE, list |-> enriched_stock_list, calls |-> calls + step.calls]
         ELSE IF step.do = "continue"
         THEN EnrichLoop(stock_list, lookup, i + 1, enriched_stock_list, calls)
         ELSE EnrichLoop(stock_list, lookup, i + 1,
                         Append(enriched_stock_list, step.item), calls + step.calls)

\* NewCache, had the handler assigned weekly_stock_data["data"] alone.
NewCache_KeepsOldTimestamp(now, enriched_stock_list) ==
    [last_updated |-> weekly_stock_data.last_updated, data |-> enriched_stock_list]

\* NewCache, had the handler left "last_updated" at None.
NewCache_NoTimestamp(now, enriched_stock_list) ==
    [last_updated |-> NoTime, data |-> enriched_stock_list]

\* NewCache, had the handler extended the cached list with the run's list.
NewCache_ExtendsOldList(now, enriched_stock_list) ==
    [last_updated |-> now, data |-> weekly_stock_data.data \o enriched_stock_list]

\* NewCache, had the handler kept the old cache when the run's list is empty.
NewCache_KeepsOldWhenEmpty(now, enriched_stock_list) ==
    IF enriched_stock_list = <<>> THEN weekly_stock_data
    ELSE [last_updated |-> now, data |-> enriched_stock_list]

\* The dict the generator binds to the global on success.
NewCache(now, enriched_stock_list) ==
    [last_updated |-> now, data |-> enriched_stock_list]

\* GenerateFails, had the handler emptied the cache before its try block.
GenerateFails_ClearsCache(provider, env, stage, msg, stock_list, lookup, lookups) ==
    /\ resp' = [kind |-> "error", error |-> msg, count |-> 0, items |-> <<>>]
    /\ req' = [NoReq EXCEPT !.op = "generate", !.stage = stage,
                            !.provider = provider, !.env = env,
                            !.stocks = stock_list, !.lookup = lookup,
                            !.llm_calls = IF stage = "config" THEN 0 ELSE 1,
                            !.lookup_calls = lookups]
    /\ weekly_stock_data' = EmptyCache
    /\ UNCHANGED clock

\* except Exception as e: return {"error": ...}; the global is not assigned.
\* stage tells how far the handler got, stock_list and lookup what the
\* enrichment loop worked on, if it ran.
GenerateFails(provider, env, stage, msg, stock_list, lookup, lookups) ==
    /\ resp' = [kind |-> "error", error |-> msg, count |-> 0, items |-> <<>>]
    /\ req' = [NoReq EXCEPT !.op = "generate", !.stage = stage,
                            !.provider = provider, !.env = env,
                            !.stocks = stock_list, !.lookup = lookup,
                            !.llm_calls = IF stage = "config" THEN 0 ELSE 1,
                            !.lookup_calls = lookups]
    /\ UNCHANGED <<weekly_stock_data, clock>>

\* GET /generate-weekly-stocks, with the backend answers and the clock
\* readings drawn from the given sets.
Generate(outcomes, times) ==
    \E provider \in Providers, env \in Envs :
        LET llm_service == LLMService_init(provider, env) IN
        IF llm_service.raised
        THEN GenerateFails(provider, env, "config", llm_service.msg, <<>>, <<>>, 0)
        ELSE \E outcome \in outcomes :
            LET response_data == generate_stock_data(llm_service.provider, outcome) IN
            IF response_data.raised
            THEN GenerateFails(provider, env, "llm", response_data.msg, <<>>, <<>>, 0)
            ELSE LET stock_list == Get(response_data.value, "stocks", JList(<<>>)) IN
                 IF stock_list.type # "list"
                 THEN GenerateFails(provider, env, "iterate", "object is not iterable",
                                    <<>>, <<>>, 0)
                 ELSE \E lookup \in LookupChoices(stock_list.val) :
                     LET loop == EnrichLoop(stock_list.val, lookup, 1, <<>>, 0) IN
                     IF loop.raised
                     THEN GenerateFails(provider, env, "enrich",
                                        "object has no attribute get",
                                        stock_list.val, lookup, loop.calls)
                     ELSE \E now \in {t \in times : t >= clock} :
                         /\ weekly_stock_data' = NewCache(now, loop.list)
                         /\ clock' = now
                         /\ resp' = [kind |-> "ok", error |-> "",
                                     count |-> Len(loop.list), items |-> <<>>]
                         /\ req' = [NoReq EXCEPT !.op = "generate", !.stage = "done",
                                        !.provider = provider, !.env = env,
                                        !.stocks = stock_list.val, !.lookup = lookup,
                                        !.llm_calls = 1, !.lookup_calls = loop.calls]

\* yf.Ticker(t).history(period="2d"): raises, or returns the closes it has
\* (oldest first), in 1/1000 of a currency unit.
FetchOutcomes ==
    {[raised |-> TRUE, closes |-> <<>>],
     [raised |-> FALSE, closes |-> <<105000>>],
     [raised |-> FALSE, closes |-> <<100000, 105000>>]}

\* RoundHalfEven with ties rounded up.
RoundHalfEven_TiesUp(n, d) ==
    LET q == n \div d
        r == n - q * d
    IN IF 2 * r < d THEN q ELSE q + 1

\* round(n / d) to the nearest integer, ties to the even one (d > 0).
RoundHalfEven(n, d) ==
    LET q == n \div d
        r == n - q * d
    IN IF 2 * r < d THEN q
       ELSE IF 2 * r > d THEN q + 1
       ELSE IF q % 2 = 0 THEN q ELSE q + 1

\* A float that is no finite number (division by a zero close).
NotFinite == -1000000000

\* round(last_close, 2), in 1/100 of a currency unit.
Price(last_close) == RoundHalfEven(last_close, 10)

\* round(((last_close - prev_close) / prev_close) * 100, 2), in 1/100 percent.
PercentChange(last_close, prev_close) ==
    IF prev_close = 0 THEN NotFinite
    ELSE RoundHalfEven((last_close - prev_close) * 10000, prev_close)

\* The dict appended to merged_data for one cached stock.
MergedView(stock, ticker, now, history) ==
    LET last_close == history[Len(history)]
        prev_close == history[Len(history) - 1]
    IN [id |-> <<ticker, now>>,
        ticker |-> ticker,
        name |-> Get(stock, "name", None),
        buy_sell_score |-> Get(stock, "buy_sell_score", DefaultScore),
        reason |-> Get(stock, "reason", ""),
        price |-> Price(last_close),
        changePct |-> PercentChange(last_close, prev_close)]

\* MergeStep, had it tested len(history) < 1: a single close is a view.
MergeStep_ShortHistoryKept(stock, fetched, now) ==
    LET ticker == Get(stock, "ticker", None) IN
    IF ~Truthy(ticker)
    THEN [do |-> "continue", item |-> [none |-> None], calls |-> 0]
    ELSE IF fetched.raised
    THEN [do |-> "continue", item |-> [none |-> None], calls |-> 1]
    ELSE IF Len(fetched.closes) < 1
    THEN [do |-> "continue", item |-> [none |-> None], calls |-> 1]
    ELSE [do |-> "append",
          item |-> MergedView(stock, ticker, now, fetched.closes \o fetched.closes),
          calls |-> 1]

\* The body of the merge loop for one cached stock: a stock with no truthy
\* ticker is passed over without a fetch; a fetch that raises, or returns
\* fewer than 2 closes, drops the stock.
MergeStep(stock, fetched, now) ==
    LET ticker == Get(stock, "ticker", None) IN
    IF ~Truthy(ticker)
    THEN [do |-> "continue", item |-> [none |-> None], calls |-> 0]
    ELSE IF fetched.raised
    THEN [do |-> "continue", item |-> [none |-> None], calls |-> 1]
    ELSE IF Len(fetched.closes) < 2
    THEN [do |-> "continue", item |-> [none |-> None], calls |-> 1]
    ELSE [do |-> "append", item |-> MergedView(stock, ticker, now, fetched.closes),
          calls |-> 1]

\* AppendView with insert(0, view) for append(view).
AppendView_Prepends(merged_data, view) == <<view>> \o merged_data

\* merged_data.append(view)
AppendView(merged_data, view) == Append(merged_data, view)

\* for stock in weekly_stock_data["data"]: from stock i on.
RECURSIVE MergeLoop(_, _, _, _, _, _)
MergeLoop(data, fetch, now, i, merged_data, calls) ==
    IF i > Len(data)
    THEN [list |-> merged_data, calls |-> calls]
    ELSE LET step == MergeStep(data[i], fetch[i], now) IN
         IF step.do = "continue"
         THEN MergeLoop(data, fetch, now, i + 1, merged_data, calls + step.calls)
         ELSE MergeLoop(data, fetch, now, i + 1,
                        AppendView(merged_data, step.item), calls + step.calls)

\* IsOutdated with >= for >.
IsOutdated_AtLimit(now, last_updated) == (now - last_updated) >= StaleDays

\* (now - last_updated) > timedelta(days=7)
IsOutdated(now, last_updated) == (now - last_updated) > StaleDays

StaleMessage == "Weekly stock data is missing or outdated."

\* GetDaily, had it regenerated a missing or outdated cache by itself.
GetDaily_Regenerates(times) ==
    \E now \in {t \in times : t >= clock} :
        /\ clock' = now
        /\ weekly_stock_data' = NewCache(now, <<>>)
        /\ resp' = [kind |-> "error", error |-> StaleMessage, count |-> 0, items |-> <<>>]
        /\ req' = [NoReq EXCEPT !.op = "getDaily", !.stage = "stale", !.llm_calls = 1]

\* GET /daily-stock-data, with the clock reading drawn from the given set.
GetDaily(times) ==
    \E now \in {t \in times : t >= clock} :
        LET data == weekly_stock_data.data
            last_updated == weekly_stock_data.last_updated
        IN
        /\ clock' = now
        /\ UNCHANGED weekly_stock_data
        /\ IF data = <<>>
           THEN /\ resp' = [kind |-> "error", error |-> StaleMessage,
                            count |-> 0, items |-> <<>>]
                /\ req' = [NoReq EXCEPT !.op = "getDaily", !.stage = "stale",
                                        !.seen_data = data]
           ELSE IF last_updated = NoTime
           THEN /\ resp' = [kind |-> "crash", error |-> "TypeError",
                            count |-> 0, items |-> <<>>]
                /\ req' = [NoReq EXCEPT !.op = "getDaily", !.stage = "crash",
                                        !.seen_data = data]
           ELSE IF IsOutdated(now, last_updated)
           THEN /\ resp' = [kind |-> "error", error |-> StaleMessage,
                            count |-> 0, items |-> <<>>]
                /\ req' = [NoReq EXCEPT !.op = "getDaily", !.stage = "stale",
                                        !.seen_data = data,
                                        !.seen_updated = last_updated]
           ELSE \E fetch \in [1 .. Len(data) -> FetchOutcomes] :
                LET loop == MergeLoop(data, fetch, now, 1, <<>>, 0) IN
                /\ resp' = [kind |-> "list", error |-> "", count |-> 0,
                            items |-> loop.list]
                /\ req' = [NoReq EXCEPT !.op = "getDaily", !.stage = "done",
                                        !.seen_data = data,
                                        !.seen_updated = last_updated,
                                        !.fetch = fetch, !.fetch_calls = loop.calls]

\* ------------------------------------------------------------ the system
Init ==
    /\ weekly_stock_data = EmptyCache
    /\ clock = 0
    /\ req = NoReq
    /\ resp = [kind |-> "none", error |-> "", count |-> 0, items |-> <<>>]

\* The content runs: every sampled LLM answer, two clock readings.
generate_weekly_stocks == Generate(BackendOutcomes, Times)

get_daily_stock_data == GetDaily(Times)

Next == generate_weekly_stocks \/ get_daily_stock_data

Spec == Init /\ [][Next]_vars

\* The staleness runs: answers of at most one stock, every day as a clock
\* reading.
ClockOutcomes ==
    {[kind |-> "raise", text |-> <<>>]}
    \cup {[kind |-> "text",
           text |-> <<Tok("{"), BodyTok([stocks |-> JList(l)]), Tok("}")>>] :
               l \in {<<>>} \cup {<<e>> : e \in StockEntries}}

generate_on_day == Generate(ClockOutcomes, Days)

get_daily_on_day == GetDaily(Days)

NextClock == generate_on_day \/ get_daily_on_day

SpecClock == Init /\ [][NextClock]_vars

\* The extraction runs: generate_stock_data alone, on every raw text of at
\* most MaxText tokens a backend can return.  req holds the call's inputs,
\* resp what the call returned or raised.
ExtractToks ==
    {Tok("noise"), Tok("fence"), Tok("{"), Tok("}"), BodyTok([stocks |-> JList(<<>>)])}

ExtractTexts == UNION {[1 .. n -> ExtractToks] : n \in 0 .. MaxText}

InitExtract ==
    /\ weekly_stock_data = EmptyCache
    /\ clock = 0
    /\ req \in {[op |-> "extract", stage |-> "called", provider |-> p, raw |-> r] :
                    p \in {"openai", "gemini"}, r \in ExtractTexts}
    /\ resp = [raised |-> FALSE, msg |-> "", value |-> [none |-> None]]

extract_json ==
    /\ req.stage = "called"
    /\ resp' = generate_stock_data(req.provider, [kind |-> "text", text |-> req.raw])
    /\ req' = [req EXCEPT !.stage = "returned"]
    /\ UNCHANGED <<weekly_stock_data, clock>>

NextExtract == extract_json

SpecExtract == InitExtract /\ [][NextExtract]_vars

\* The rounding runs: the merge of one cached stock, on every pair of
\* closes up to MaxClose and on the pair (100.00, 105.00).  req holds the
\* cached stock and the closes the fetch returned, resp the merge step's
\* result.
RoundingCloses == (0 .. MaxClose) \cup {100000, 105000}

InitRounding ==
    /\ weekly_stock_data = EmptyCache
    /\ clock = 0
    /\ req \in {[op |-> "merge", stage |-> "called",
                  stock |-> [ticker |-> "AAPL", buy_sell_score |-> 85,
                             reason |-> "r", name |-> "Apple Inc."],
                  closes |-> <<prev_close, last_close>>] :
                    prev_close \in RoundingCloses, last_close \in RoundingCloses}
    /\ resp = [do |-> "none", item |-> [none |-> None], calls |-> 0]

merge_one ==
    /\ req.stage = "called"
    /\ resp' = MergeStep(req.stock, [raised |-> FALSE, closes |-> req.closes], clock)
    /\ req' = [req EXCEPT !.stage = "returned"]
    /\ UNCHANGED <<weekly_stock_data, clock>>

NextRounding == merge_one

SpecRounding == InitRounding /\ [][NextRounding]_vars

\* The blocking runs: a handler as the sequence of its external calls.
\* Every external call is a synchronous call made without a timeout
\* argument: the handler's next statement runs when the call returns or
\* raises, and not before.  A call's fate says which of the two it does, or
\* that it does neither.  While a handler waits, the event loop it runs on
\* starts no other handler.
BlockingFates == {"returns", "raises", "never"}

\* The stocks of the sampled answers: every entry has a ticker, so the
\* generator looks every entry up.
BlockingLists ==
    {<<>>,
     <<JDict([ticker |-> "AAPL", buy_sell_score |-> 85, reason |-> "r"])>>,
     <<JDict([ticker |-> "AAPL", buy_sell_score |-> 85, reason |-> "r"]),
       JDict([ticker |-> "ZZZ", preference_score |-> 85, reason |-> "r"])>>}

\* A handler's position: the call it waits for, that call's fate, the
\* entry the loop is at, the list it walks and the list it has built.
BlockingReq(op, stage, call, fate, i, stocks, acc) ==
    [op |-> op, stage |-> stage, call |-> call, fate |-> fate, i |-> i,
     stocks |-> stocks, acc |-> acc]

Returned(op) == BlockingReq(op, "returned", "none", "none", 0, <<>>, <<>>)

Idle == req.stage \in {"idle", "returned"}

InitBlocking ==
    /\ weekly_stock_data = EmptyCache
    /\ clock = 0
    /\ req = BlockingReq("none", "idle", "none", "none", 0, <<>>, <<>>)
    /\ resp = [kind |-> "none", error |-> "", count |-> 0, items |-> <<>>]

\* generate_weekly_stocks up to the SDK call of call_openai / call_gemini.
start_generate ==
    /\ Idle
    /\ UNCHANGED <<weekly_stock_data, clock>>
    /\ \E provider \in Providers, env \in Envs :
           LET llm_service == LLMService_init(provider, env) IN
           IF llm_service.raised
           THEN /\ req' = Returned("generate")
                /\ resp' = [kind |-> "error", error |-> llm_service.msg,
                            count |-> 0, items |-> <<>>]
           ELSE \E fate \in BlockingFates :
                /\ req' = BlockingReq("generate", "waiting", "llm", fate, 0, <<>>, <<>>)
                /\ resp' = [kind |-> "none", error |-> "", count |-> 0, items |-> <<>>]

\* The SDK call returns or raises: the handler fails, or succeeds on an
\* empty list, or goes on to the first name lookup.
llm_answers ==
    /\ req.stage = "waiting"
    /\ req.call = "llm"
    /\ req.fate # "never"
    /\ UNCHANGED clock
    /\ IF req.fate = "raises"
       THEN /\ req' = Returned("generate")
            /\ resp' = [kind |-> "error", error |-> "API error", count |-> 0, items |-> <<>>]
            /\ UNCHANGED weekly_stock_data
       ELSE \E stock_list \in BlockingLists :
            IF stock_list = <<>>
            THEN /\ req' = Returned("generate")
                 /\ resp' = [kind |-> "ok", error |-> "", count |-> 0, items |-> <<>>]
                 /\ weekly_stock_data' = NewCache(clock, <<>>)
            ELSE \E fate \in BlockingFates :
                 /\ req' = BlockingReq("generate", "waiting", "lookup", fate, 1,
                                       stock_list, <<>>)
                 /\ UNCHANGED <<resp, weekly_stock_data>>

\* yf.Ticker(ticker_str).info returns or raises: the entry is appended, and
\* the handler goes on to the next lookup or binds the cache and returns.
lookup_answers ==
    /\ req.stage = "waiting"
    /\ req.call = "lookup"
    /\ req.fate # "never"
    /\ UNCHANGED clock
    /\ LET step == EnrichStep(req.stocks[req.i],
                              IF req.fate = "raises" THEN "raise" ELSE "long")
           enriched_stock_list == Append(req.acc, step.item)
       IN IF req.i = Len(req.stocks)
          THEN /\ req' = Returned("generate")
               /\ resp' = [kind |-> "ok", error |-> "",
                           count |-> Len(enriched_stock_list), items |-> <<>>]
               /\ weekly_stock_data' = NewCache(clock, enriched_stock_list)
          ELSE \E fate \in BlockingFates :
               /\ req' = [req EXCEPT !.i = req.i + 1, !.fate = fate,
                                     !.acc = enriched_stock_list]
               /\ UNCHANGED <<resp, weekly_stock_data>>

\* get_daily_stock_data up to the first yf.Ticker(ticker).history call.
start_get_daily ==
    /\ Idle
    /\ UNCHANGED <<weekly_stock_data, clock>>
    /\ IF \/ weekly_stock_data.data = <<>>
          \/ IsOutdated(clock, weekly_stock_data.last_updated)
       THEN /\ req' = Returned("getDaily")
            /\ resp' = [kind |-> "error", error |-> StaleMessage,
                        count |-> 0, items |-> <<>>]
       ELSE \E fate \in BlockingFates :
            /\ req' = BlockingReq("getDaily", "waiting", "fetch", fate, 1,
                                  weekly_stock_data.data, <<>>)
            /\ resp' = [kind |-> "none", error |-> "", count |-> 0, items |-> <<>>]

\* yf.Ticker(ticker).history returns or raises: the stock is merged or
\* dropped, and the handler goes on to the next fetch or returns the list.
fetch_answers ==
    /\ req.stage = "waiting"
    /\ req.call = "fetch"
    /\ req.fate # "never"
    /\ UNCHANGED <<weekly_stock_data, clock>>
    /\ LET fetched == IF req.fate = "raises"
                      THEN [raised |-> TRUE, closes |-> <<>>]
                      ELSE [raised |-> FALSE, closes |-> <<100000, 105000>>]
           step == MergeStep(req.stocks[req.i], fetched, clock)
           merged_data == IF step.do = "append"
                          THEN AppendView(req.acc, step.item) ELSE req.acc
       IN IF req.i = Len(req.stocks)
          THEN /\ req' = Returned("getDaily")
               /\ resp' = [kind |-> "list", error |-> "", count |-> 0,
                           items |-> merged_data]
          ELSE \E fate \in BlockingFates :
               /\ req' = [req EXCEPT !.i = req.i + 1, !.fate = fate,
                                     !.acc = merged_data]
               /\ UNCHANGED resp

NextBlocking ==
    \/ start_generate
    \/ llm_answers
    \/ lookup_answers
    \/ start_get_daily
    \/ fetch_answers

\* A call that returns or raises lets the handler run on: the interpreter
\* executes the handler's next statement.
SpecBlocking ==
    /\ InitBlocking
    /\ [][NextBlocking]_vars
    /\ WF_vars(llm_answers)
    /\ WF_vars(lookup_answers)
    /\ WF_vars(fetch_answers)

\* ------------------------------------------------------- claim vocabulary
\* The positions of a parsed stock list that carry a ticker.
Kept(stocks) ==
    {i \in 1 .. Len(stocks) :
        /\ stocks[i].type = "dict"
        /\ "ticker" \in DOMAIN stocks[i].val
        /\ stocks[i].val.ticker \notin {None, ""}}

\* The k-th smallest member of a set of positions.
Nth(S, k) == CHOOSE i \in S : Cardinality({j \in S : j < i}) = k - 1

\* A dict without one of its keys.
DropKey(d, k) == [x \in (DOMAIN d) \ {k} |-> d[x]]

\* -------------------------------------------------------------------- C1
\* C1: every generate run either succeeds, binds the cache to a new record
\* of the run's timestamp and its enriched list and returns that list's
\* length as count, or returns an error body and leaves the cache as it was.
C1_GenerateAllOrNothing ==
    [][req'.op = "generate" =>
          \/ /\ resp'.kind = "ok"
             /\ weekly_stock_data'.last_updated = clock'
             /\ resp'.count = Len(weekly_stock_data'.data)
             /\ Len(weekly_stock_data'.data) = Cardinality(Kept(req'.stocks))
             /\ \A k \in 1 .. Len(weekly_stock_data'.data) :
                    "name" \in DOMAIN weekly_stock_data'.data[k]
          \/ /\ resp'.kind = "error"
             /\ weekly_stock_data' = weekly_stock_data]_vars

\* A run that failed after a name lookup, with a non-empty cache kept.
C1_Witness ==
    /\ req.op = "generate"
    /\ resp.kind = "error"
    /\ req.lookup_calls > 0
    /\ weekly_stock_data.data # <<>>

\* -------------------------------------------------------------------- C2
\* C2: getDaily returns the staleness error exactly when the cached list is
\* empty or the clock reading is more than 7 days after lastUpdated;
\* otherwise it returns the merged list.
C2_StaleIffEmptyOrOlderThan7 ==
    req.op = "getDaily" =>
        /\ resp.kind \in {"error", "list"}
        /\ resp.kind = "error" <=>
               \/ weekly_stock_data.data = <<>>
               \/ clock - weekly_stock_data.last_updated > 7

\* An 8 day old non-empty cache gives the error.
C2_Witness ==
    /\ req.op = "getDaily"
    /\ weekly_stock_data.data # <<>>
    /\ clock - weekly_stock_data.last_updated = 8
    /\ resp.kind = "error"

\* A non-empty cache that is exactly 7 days old is merged.
C2_WitnessBoundary ==
    /\ req.op = "getDaily"
    /\ weekly_stock_data.data # <<>>
    /\ clock - weekly_stock_data.last_updated = 7
    /\ resp.kind = "list"

\* A non-empty cache that is 6 days old is merged.
C2_WitnessSixDays ==
    /\ req.op = "getDaily"
    /\ weekly_stock_data.data # <<>>
    /\ clock - weekly_stock_data.last_updated = 6
    /\ resp.kind = "list"

\* -------------------------------------------------------------------- C3
\* C3: a getDaily call leaves lastUpdated and items as they were and issues
\* no LLM call and no name lookup, whatever its outcome.
C3_DailyLeavesCache ==
    [][req'.op = "getDaily" =>
          /\ weekly_stock_data' = weekly_stock_data
          /\ req'.llm_calls = 0
          /\ req'.lookup_calls = 0]_vars

\* A getDaily call on a stale, non-empty cache has returned the error.
C3_Witness ==
    /\ req.op = "getDaily"
    /\ resp.kind = "error"
    /\ weekly_stock_data.data # <<>>
    /\ req.llm_calls = 0

\* -------------------------------------------------------------------- C4
\* The cached positions whose price fetch returned two closes.
Good(fetch) == {i \in DOMAIN fetch : ~fetch[i].raised /\ Len(fetch[i].closes) >= 2}

\* C4: in a merge, a ticker whose fetches all raise or return fewer than 2
\* closes has no view, every cached stock whose fetch returned 2 closes has
\* one, and the response is the list, not an error.
C4_BadTickerOmittedOthersKept ==
    (req.op = "getDaily" /\ req.stage = "done") =>
        LET data == weekly_stock_data.data
            good == Good(req.fetch)
        IN /\ resp.kind = "list"
           /\ Len(resp.items) = Cardinality(good)
           /\ \A i \in good : \E k \in 1 .. Len(resp.items) :
                  resp.items[k].ticker = data[i].ticker
           /\ \A i \in (1 .. Len(data)) \ good :
                  (\A j \in good : data[j].ticker # data[i].ticker)
                      => \A k \in 1 .. Len(resp.items) :
                             resp.items[k].ticker # data[i].ticker

\* The first stock's fetch returned a single close, the second's two: the
\* response holds the second stock alone.
C4_Witness ==
    /\ req.op = "getDaily"
    /\ req.stage = "done"
    /\ Len(req.fetch) = 2
    /\ ~req.fetch[1].raised
    /\ Len(req.fetch[1].closes) = 1
    /\ 2 \in Good(req.fetch)
    /\ Len(resp.items) = 1
    /\ resp.items[1].ticker = weekly_stock_data.data[2].ticker
    /\ weekly_stock_data.data[1].ticker # weekly_stock_data.data[2].ticker

\* -------------------------------------------------------------------- C5
\* The score an LLM answer gives a stock: under the key the prompt lists,
\* or under the key of the prompt's example format.
ScoreGiven(stock) ==
    IF "buy_sell_score" \in DOMAIN stock THEN stock.buy_sell_score
    ELSE stock.preference_score

\* C5: every merged view carries the ticker, name, score and reason of the
\* cached stock it was built from, the score being the one the LLM gave.
C5_ViewCopiesCachedFields ==
    (req.op = "getDaily" /\ req.stage = "done") =>
        \A k \in 1 .. Len(resp.items) :
            LET stock == weekly_stock_data.data[Nth(Good(req.fetch), k)]
                view == resp.items[k]
            IN /\ view.ticker = stock.ticker
               /\ view.name = stock.name
               /\ view.reason = stock.reason
               /\ view.buy_sell_score = ScoreGiven(stock)

\* -------------------------------------------------------------------- C6
\* C6: the list a successful generate writes is, names aside, the parsed
\* entries that carry a ticker, in the order of the answer; entries without
\* one do not fail the run.
C6_EnrichedIsEntriesWithTicker ==
    /\ (req.op = "generate" /\ req.stage = "done") =>
           LET kept == Kept(req.stocks)
               data == weekly_stock_data.data
           IN /\ Len(data) = Cardinality(kept)
              /\ \A k \in 1 .. Len(data) :
                     DropKey(data[k], "name") = req.stocks[Nth(kept, k)].val
    /\ (req.op = "generate" /\ req.stage = "enrich") =>
           \E i \in 1 .. Len(req.stocks) : req.stocks[i].type # "dict"

\* An answer of an entry without a ticker and a stock gave a list of one.
C6_Witness ==
    /\ req.op = "generate"
    /\ req.stage = "done"
    /\ Len(req.stocks) = 2
    /\ "ticker" \notin DOMAIN req.stocks[1].val
    /\ Kept(req.stocks) = {2}
    /\ Len(weekly_stock_data.data) = 1
    /\ resp.count = 1

\* An answer of the one entry {"score": 10} gave the empty list.
C6_WitnessEmpty ==
    /\ req.op = "generate"
    /\ req.stage = "done"
    /\ req.stocks = <<JDict([score |-> 10])>>
    /\ weekly_stock_data.data = <<>>

\* -------------------------------------------------------------------- C7
\* C7: a generate run that reaches the enrichment of a list of JSON objects
\* succeeds whatever its lookups do, and an entry whose lookup failed is in
\* the written list with its ticker as name.
C7_LookupFailureFallsBackToTicker ==
    (/\ req.op = "generate"
     /\ req.stage \in {"enrich", "done"}
     /\ \A i \in 1 .. Len(req.stocks) : req.stocks[i].type = "dict") =>
        LET kept == Kept(req.stocks)
            data == weekly_stock_data.data
        IN /\ resp.kind = "ok"
           /\ Len(data) = Cardinality(kept)
           /\ \A i \in kept :
                  req.lookup[i] = "raise" =>
                      LET item == data[Cardinality({j \in kept : j <= i})] IN
                      /\ item.ticker = req.stocks[i].val.ticker
                      /\ item.name = req.stocks[i].val.ticker

\* The lookup of the first of two stocks failed: both are in the list, the
\* first named by its ticker.
C7_Witness ==
    /\ req.op = "generate"
    /\ resp.kind = "ok"
    /\ Len(req.lookup) = 2
    /\ req.lookup[1] = "raise"
    /\ req.lookup[2] = "long"
    /\ Len(weekly_stock_data.data) = 2
    /\ weekly_stock_data.data[1].name = "ZZZ"
    /\ weekly_stock_data.data[1].ticker = "ZZZ"

\* -------------------------------------------------------------------- C8
\* C8: the returned views follow the order of the cached stocks they come
\* from: there is a strictly increasing map from views to cached stocks.
C8_ViewsInCacheOrder ==
    (req.op = "getDaily" /\ req.stage = "done") =>
        LET data == weekly_stock_data.data
            items == resp.items
        IN \E f \in [1 .. Len(items) -> 1 .. Len(data)] :
               /\ \A k \in 1 .. Len(items) :
                      /\ items[k].ticker = data[f[k]].ticker
                      /\ items[k].name = data[f[k]].name
               /\ \A k1, k2 \in 1 .. Len(items) : k1 < k2 => f[k1] < f[k2]

\* Two different stocks, both priced.
C8_Witness ==
    /\ req.op = "getDaily"
    /\ req.stage = "done"
    /\ Len(resp.items) = 2
    /\ resp.items[1].ticker # resp.items[2].ticker
    /\ resp.items[1].ticker = weekly_stock_data.data[1].ticker

\* -------------------------------------------------------------------- C9
\* The complete pair of a generation: its timestamp with the fully
\* enriched list of its answer.
CompletePair(stocks, lookup, now) ==
    LET kept == Kept(stocks) IN
    [last_updated |-> now,
     data |-> [k \in 1 .. Cardinality(kept) |->
                  LET i == Nth(kept, k)
                      t == stocks[i].val.ticker
                  IN SetKey(stocks[i].val, "name",
                            IF lookup[i] = "long" THEN LongName(t) ELSE t)]]

\* C9: the cache changes only in a successful generate step, and then both
\* fields change at once to the complete pair of that run; the timestamp and
\* the list a getDaily call works with are the two fields of the one cache
\* record of that moment.
C9_ReaderSeesCompletePair ==
    [][/\ weekly_stock_data' # weekly_stock_data =>
              /\ req'.op = "generate"
              /\ resp'.kind = "ok"
              /\ weekly_stock_data' = CompletePair(req'.stocks, req'.lookup, clock')
       /\ req'.op = "getDaily" =>
              /\ req'.seen_data = weekly_stock_data.data
              /\ req'.seen_data # <<>> =>
                     req'.seen_updated = weekly_stock_data.last_updated]_vars

\* A getDaily call has merged a list of two stocks written at the later
\* clock reading.
C9_Witness ==
    /\ req.op = "getDaily"
    /\ req.stage = "done"
    /\ Len(req.seen_data) = 2
    /\ req.seen_updated = MaxNow
    /\ req.seen_data = weekly_stock_data.data

\* ------------------------------------------------------------------- C10
\* The environment key of a provider spelling, "" for an unsupported one.
KeyOf(provider) ==
    IF provider \in {"gemini", "GEMINI", "Gemini"} THEN "GEMINI_API_KEY"
    ELSE IF provider \in {"openai", "OPENAI", "OpenAI"} THEN "OPENAI_API_KEY"
    ELSE ""

BadConfig(r) == KeyOf(r.provider) = "" \/ r.env[KeyOf(r.provider)] = None

\* C10: a generate run with an unsupported provider, or without the API key
\* of its backend, returns an error without an LLM call or a name lookup and
\* leaves the cache as it was.
C10_ConfigErrorBeforeAnyCall ==
    [][(req'.op = "generate" /\ BadConfig(req')) =>
          /\ resp'.kind = "error"
          /\ req'.llm_calls = 0
          /\ req'.lookup_calls = 0
          /\ weekly_stock_data' = weekly_stock_data]_vars

\* A run for gemini without GEMINI_API_KEY failed and a non-empty cache is
\* still there.
C10_Witness ==
    /\ req.op = "generate"
    /\ req.provider = "gemini"
    /\ req.env["GEMINI_API_KEY"] = None
    /\ resp.kind = "error"
    /\ req.llm_calls = 0
    /\ weekly_stock_data.data # <<>>

\* A run for an unsupported provider failed the same way.
C10_WitnessUnsupported ==
    /\ req.op = "generate"
    /\ req.provider = "claude"
    /\ resp.kind = "error"
    /\ req.llm_calls = 0
    /\ weekly_stock_data.data # <<>>

\* ------------------------------------------------------------------- C11
\* C11: every generate request and every getDaily request ends with a
\* response body: generate with the success body (message, count) or an
\* error body, getDaily with the merged list or an error body; no exception
\* leaves a handler, whatever the cache holds and whichever step failed.
C11_EveryRequestEndsWithBody ==
    /\ resp.kind # "crash"
    /\ req.op = "generate" =>
           /\ resp.kind \in {"ok", "error"}
           /\ resp.kind = "ok" <=> req.stage = "done"
           /\ resp.kind = "error" => resp.error # ""
    /\ req.op = "getDaily" =>
           /\ resp.kind \in {"list", "error"}
           /\ resp.kind = "list" <=> req.stage = "done"
           /\ resp.kind = "error" => resp.error = StaleMessage

\* A getDaily call all of whose price fetches raised: the body is the empty
\* list.
C11_Witness ==
    /\ req.op = "getDaily"
    /\ Len(req.fetch) = 2
    /\ \A i \in 1 .. 2 : req.fetch[i].raised
    /\ resp.kind = "list"
    /\ resp.items = <<>>

\* A generate run stopped by an entry of the answer that is no object: the
\* body is an error body.
C11_WitnessMalformedEntry ==
    /\ req.op = "generate"
    /\ req.stage = "enrich"
    /\ resp.kind = "error"

\* ------------------------------------------------------------------- C12
\* The text the extraction works on: what the backend call handed over.
RawText ==
    IF req.provider = "openai"
    THEN call_openai([kind |-> "text", text |-> req.raw]).text
    ELSE call_gemini([kind |-> "text", text |-> req.raw]).text

\* The positions of a brace in the text.
Braces(raw, ch) == {i \in 1 .. Len(raw) : raw[i].t = ch}

\* The text from its first "{" to its last "}", both included.
FirstToLast(raw) ==
    LET first == CHOOSE i \in Braces(raw, "{") : \A j \in Braces(raw, "{") : i <= j
        last == CHOOSE i \in Braces(raw, "}") : \A j \in Braces(raw, "}") : i >= j
    IN SubSeq(raw, first, last)

NoBracePair(raw) == Braces(raw, "{") = {} \/ Braces(raw, "}") = {}

\* The error a text without any brace ends in.
NoJsonFoundError(provider) ==
    generate_stock_data(provider, [kind |-> "text", text |-> <<Tok("noise")>>]).msg

\* C12 as stated: the extraction parses the text from the first "{" to the
\* last "}"; a text without a brace pair fails, a cut that does not parse
\* fails, and the caller can tell the second failure from the first.
C12_FailuresDistinguishable ==
    (req.op = "extract" /\ req.stage = "returned") =>
        IF NoBracePair(RawText)
        THEN resp.raised /\ resp.msg = NoJsonFoundError(req.provider)
        ELSE LET parsed == json_loads(FirstToLast(RawText)) IN
             IF parsed.raised
             THEN resp.raised /\ resp.msg # NoJsonFoundError(req.provider)
             ELSE ~resp.raised /\ resp.value = parsed.value

\* C12, amended: the extraction parses the text from the first "{" to the
\* last "}" and returns the parsed object; a text without a brace pair and
\* a cut that does not parse both fail with the one error "Failed to decode
\* JSON from LLM response.".
C12_ExtractionCutsFirstToLastBrace ==
    (req.op = "extract" /\ req.stage = "returned") =>
        IF NoBracePair(RawText)
        THEN resp.raised /\ resp.msg = "Failed to decode JSON from LLM response."
        ELSE LET parsed == json_loads(FirstToLast(RawText)) IN
             IF parsed.raised
             THEN resp.raised /\ resp.msg = "Failed to decode JSON from LLM response."
             ELSE ~resp.raised /\ resp.value = parsed.value

\* noise{"stocks":[]}more noise yields {"stocks":[]}.
C12_Witness ==
    /\ req.op = "extract"
    /\ req.stage = "returned"
    /\ req.raw = <<Tok("noise"), Tok("{"), BodyTok([stocks |-> JList(<<>>)]),
                   Tok("}"), Tok("noise")>>
    /\ ~resp.raised
    /\ resp.value = [stocks |-> JList(<<>>)]

\* A text without braces has failed.
C12_WitnessNoBrace ==
    /\ req.op = "extract"
    /\ req.stage = "returned"
    /\ req.raw = <<Tok("noise"), Tok("noise")>>
    /\ resp.raised

\* A cut that holds two objects has failed.
C12_WitnessInvalid ==
    /\ req.op = "extract"
    /\ req.stage = "returned"
    /\ req.raw = <<Tok("{"), Tok("}"), Tok("noise"), Tok("{"), Tok("}")>>
    /\ resp.raised

\* ------------------------------------------------------------------- C13
\* C13: the id values of the views of one getDaily response are pairwise
\* distinct, whatever the generate runs before it have cached.
C13_IdsPairwiseDistinct ==
    (req.op = "getDaily" /\ resp.kind = "list") =>
        \A i, j \in 1 .. Len(resp.items) :
            i # j => resp.items[i].id # resp.items[j].id

\* ------------------------------------------------------------------- C14
\* C14: no request blocks for ever: every generate and getDaily request
\* that has started returns a response in the end, also when an external
\* call (LLM, name lookup, price fetch) never answers.
C14_EveryRequestReturns ==
    (req.stage = "waiting") ~> (req.stage = "returned")

\* ------------------------------------------------------------------- C15
\* |n|
Abs(n) == IF n < 0 THEN -n ELSE n

\* x is n / d rounded to an integer: a nearest integer, and the even one
\* of the two when n / d lies half way between two integers (d > 0).
IsRounded(x, n, d) ==
    /\ 2 * Abs(x * d - n) <= d
    /\ 2 * Abs(x * d - n) = d => x % 2 = 0

\* C15: for closes (prev, last) with prev non-zero the view's price is last
\* rounded to 2 decimals and its changePct is (last - prev) / prev * 100
\* rounded to 2 decimals, both by the same rule (to the nearest, ties to
\* even); closes (100.00, 105.00) give changePct 5.00 and price 105.00.
C15_PriceAndChangeRounded ==
    (req.op = "merge" /\ req.stage = "returned" /\ req.closes[1] # 0) =>
        LET prev == req.closes[1]
            last == req.closes[2]
        IN /\ resp.do = "append"
           /\ IsRounded(resp.item.price, last, 10)
           /\ IsRounded(resp.item.changePct, (last - prev) * 10000, prev)
           /\ (prev = 100000 /\ last = 105000) =>
                  (resp.item.changePct = 500 /\ resp.item.price = 10500)

\* Closes (100.00, 105.00) have been merged to 5.00 percent and 105.00.
C15_Witness ==
    /\ req.op = "merge"
    /\ req.stage = "returned"
    /\ req.closes = <<100000, 105000>>
    /\ resp.item.changePct = 500
    /\ resp.item.price = 10500

\* Closes (0.032, 0.033): the change, 3.125 percent, lies half way and has
\* been rounded to 3.12.
C15_WitnessTie ==
    /\ req.op = "merge"
    /\ req.stage = "returned"
    /\ req.closes = <<32, 33>>
    /\ resp.item.changePct = 312

\* A falling price: closes (0.030, 0.025) give -16.67 percent and the price
\* 0.02, the even neighbour of 0.025.
C15_WitnessFalling ==
    /\ req.op = "merge"
    /\ req.stage = "returned"
    /\ req.closes = <<30, 25>>
    /\ resp.item.changePct = -1667
    /\ resp.item.price = 2

\* ------------------------------------------------------------------- C16
\* C16: of two generate runs whose handlers ran one right after the other,
\* the cache afterwards is exactly the timestamp and enriched list of the
\* run that wrote last, with no item of the other run mixed in; a run that
\* fails after a successful one leaves that run's pair in place.
C16_LastWriterWins ==
    [][(req.op = "generate" /\ req'.op = "generate") =>
          /\ resp'.kind = "ok" =>
                 weekly_stock_data' = CompletePair(req'.stocks, req'.lookup, clock')
          /\ (resp'.kind = "error" /\ resp.kind = "ok") =>
                 weekly_stock_data' = CompletePair(req.stocks, req.lookup, clock)
          /\ (resp'.kind = "error" /\ resp.kind = "error") =>
                 weekly_stock_data' = weekly_stock_data]_vars

\* A run whose LLM call or extraction failed, with the two stocks of an
\* earlier run still cached.
C16_Witness ==
    /\ req.op = "generate"
    /\ req.stage = "llm"
    /\ resp.kind = "error"
    /\ Len(weekly_stock_data.data) = 2

\* A run has replaced a cache by its own single stock at the same clock
\* reading as the cache it found.
C16_WitnessOverwrite ==
    /\ req.op = "generate"
    /\ resp.kind = "ok"
    /\ resp.count = 1
    /\ clock = 0
    /\ weekly_stock_data = CompletePair(req.stocks, req.lookup, 0)

\* ------------------------------------------------------------------- C17
\* C17: in every reachable state a non-empty cached list comes with a set
\* lastUpdated, and every cached item has a non-empty ticker and a name
\* field; so getDaily's staleness test never subtracts an unset timestamp,
\* and its loop never passes over a cached item for want of a ticker: it
\* issues one price fetch per cached item.
C17_CacheWellFormed ==
    /\ weekly_stock_data.data # <<>> => weekly_stock_data.last_updated # NoTime
    /\ \A k \in 1 .. Len(weekly_stock_data.data) :
           /\ "ticker" \in DOMAIN weekly_stock_data.data[k]
           /\ weekly_stock_data.data[k].ticker \notin {None, ""}
           /\ "name" \in DOMAIN weekly_stock_data.data[k]
    /\ req.stage # "crash"
    /\ (req.op = "getDaily" /\ req.stage = "done") =>
           req.fetch_calls = Len(weekly_stock_data.data)

\* A run whose answer began with an entry of empty ticker has cached the
\* other entry alone.
C17_Witness ==
    /\ req.op = "generate"
    /\ req.stage = "done"
    /\ Len(req.stocks) = 2
    /\ req.stocks[1] = JDict([ticker |-> "", score |-> 10])
    /\ Len(weekly_stock_data.data) = 1
    /\ weekly_stock_data.last_updated = clock

\* A getDaily call has fetched a price for each of two cached stocks.
C17_WitnessDaily ==
    /\ req.op = "getDaily"
    /\ req.stage = "done"
    /\ req.fetch_calls = 2
    /\ weekly_stock_data.last_updated # NoTime

\* ------------------------------------------------------------------- C18
\* C18: a generate run whose parsed answer has no "stocks" key, an empty
\* list, or only entries without a ticker is a success with count 0 and
\* binds the cache to the empty list and the run's timestamp, whatever was
\* cached; and while the cached list is empty every getDaily call returns
\* the staleness error, the list becoming non-empty again only by a
\* generate run that reports at least one item.
C18_EmptyRunClearsCache ==
    [][/\ (/\ req'.op = "generate"
           /\ req'.stage \notin {"config", "llm", "iterate"}
           /\ \A i \in 1 .. Len(req'.stocks) : req'.stocks[i].type = "dict"
           /\ Kept(req'.stocks) = {}) =>
              /\ resp'.kind = "ok"
              /\ resp'.count = 0
              /\ weekly_stock_data' = [last_updated |-> clock', data |-> <<>>]
       /\ (weekly_stock_data.data = <<>> /\ req'.op = "getDaily") =>
              /\ resp'.kind = "error"
              /\ resp'.error = StaleMessage
       /\ (weekly_stock_data.data = <<>> /\ weekly_stock_data'.data # <<>>) =>
              /\ req'.op = "generate"
              /\ resp'.kind = "ok"
              /\ resp'.count >= 1]_vars

\* A getDaily call has returned the staleness error on an empty list whose
\* timestamp is the clock reading of the call.
C18_Witness ==
    /\ req.op = "getDaily"
    /\ resp.kind = "error"
    /\ weekly_stock_data.data = <<>>
    /\ weekly_stock_data.last_updated = clock
    /\ clock = MaxNow

\* A run on two entries without a ticker has succeeded with count 0.
C18_WitnessTickerless ==
    /\ req.op = "generate"
    /\ resp.kind = "ok"
    /\ resp.count = 0
    /\ Len(req.stocks) = 2
    /\ weekly_stock_data = [last_updated |-> clock, data |-> <<>>]

====
